---------------------------- MODULE Spec2Model ----------------------------
(***************************************************************************)
(* A model of imp-rs: the abstract syntax (src/src/ast.rs), the tree       *)
(* walking evaluator and the read-eval-print loop (src/src/main.rs).       *)
(*                                                                         *)
(* Syntax trees are tagged tuples, the tag first:                          *)
(*   AExpr  <<"Val", n>>  <<"Var", v>>  <<"BinOp", op, l, r>>  <<"Neg", e>>*)
(*   BExpr  <<"Bool", b>> <<"And", l, r>> <<"Or", l, r>> <<"Not", e>>      *)
(*          <<"Cmp", cmp, l, r>>                                           *)
(*   Stmt   <<"Skip">> <<"Asgn", v, e>> <<"Seq", stmts>>                   *)
(*          <<"If", g, t, e>> <<"While", g, body>>                         *)
(* The expression evaluators are pure and total, so they are recursive     *)
(* operators.  eval_stmt mutates the State and need not terminate, so it   *)
(* is a machine: `stack` holds the activations of eval_stmt and of the     *)
(* loops that are waiting for a callee, the innermost first.               *)
(***************************************************************************)
EXTENDS Integers, Sequences, FiniteSets, TLC

VARIABLES
    overflow_checks,  \* the build profile: TRUE = overflow checks on (debug)
    pc,               \* where main is: "readline", "eval", "unwind", "report",
                      \* "exited", "panicked" (and "harness", see SpecDirect)
    readline,         \* what rl.readline last returned
    line,             \* the line being run (0: none)
    stack,            \* the activations, innermost first
    state,            \* run_prog's State of the current execution
    result,           \* the value being returned to main
    out,              \* what main last printed
    assigned,         \* history: the variables assigned in this execution
    yielded,          \* history: what StmtIter::next has yielded in this execution
    mode,             \* which entry point the caller used
    last              \* history: per entry point, the outcome of its last call

vars == <<overflow_checks, pc, readline, line, stack, state, result, out,
          assigned, yielded, mode, last>>

(***************************************************************************)
(* Bounds.  i64 is scaled down to IntBits bits.                            *)
(***************************************************************************)
IntBits == 5
MaxN == 10

Modulus == 2 ^ IntBits
MinInt == -(2 ^ (IntBits - 1))
MaxInt == 2 ^ (IntBits - 1) - 1
InRange(n) == MinInt <= n /\ n <= MaxInt
\* Two's-complement wrap-around of an exact result.
Wrap(n) == ((n - MinInt) % Modulus) + MinInt

Ok(v) == <<"Ok", v>>
Err(e) == <<"Err", e>>
Panic(msg) == <<"Panic", msg>>
IsOk(r) == r[1] = "Ok"

(***************************************************************************)
(* ast.rs: the construction helpers.                                       *)
(***************************************************************************)
Val(n) == <<"Val", n>>
Var(v) == <<"Var", v>>
AExpr_add(lhs, rhs) == <<"BinOp", "Add", lhs, rhs>>
AExpr_sub(lhs, rhs) == <<"BinOp", "Sub", lhs, rhs>>
AExpr_mult(lhs, rhs) == <<"BinOp", "Mult", lhs, rhs>>
AExpr_div(lhs, rhs) == <<"BinOp", "Div", lhs, rhs>>
AExpr_neg(e) == <<"Neg", e>>
Bool(b) == <<"Bool", b>>
BExpr_and(lhs, rhs) == <<"And", lhs, rhs>>
BExpr_or(lhs, rhs) == <<"Or", lhs, rhs>>
BExpr_not(term) == <<"Not", term>>
BExpr_cmp(cmp, lhs, rhs) == <<"Cmp", cmp, lhs, rhs>>
Skip == <<"Skip">>
Asgn(v, e) == <<"Asgn", v, e>>
Seq_from(stmts) == <<"Seq", stmts>>
ite(if_, then_, else_) == <<"If", if_, then_, else_>>
While(test, body) == <<"While", test, body>>

(***************************************************************************)
(* Native i64 arithmetic, as rustc compiles it.  `/` rounds toward zero    *)
(* and panics on a zero divisor and on MIN / -1 in every build; + - * and  *)
(* unary - panic on overflow when overflow checks are on and wrap when     *)
(* they are off.                                                           *)
(***************************************************************************)
Abs(n) == IF n < 0 THEN -n ELSE n
TruncDiv(l, r) ==
    IF (l < 0) = (r < 0) THEN Abs(l) \div Abs(r) ELSE -(Abs(l) \div Abs(r))

Checked(exact, what) ==
    IF InRange(exact) THEN Ok(exact)
    ELSE IF overflow_checks THEN Panic(what)
    ELSE Ok(Wrap(exact))

into_fn(bin_op, l, r) ==
    CASE bin_op = "Add" -> Checked(l + r, "attempt to add with overflow")
      [] bin_op = "Sub" -> Checked(l - r, "attempt to subtract with overflow")
      [] bin_op = "Mult" -> Checked(l * r, "attempt to multiply with overflow")
      [] bin_op = "Div" ->
            IF r = 0 THEN Panic("attempt to divide by zero")
            ELSE IF l = MinInt /\ r = -1 THEN Panic("attempt to divide with overflow")
            ELSE Ok(TruncDiv(l, r))

neg(n) == Checked(-n, "attempt to negate with overflow")

compare(cmp, l, r) ==
    CASE cmp = "Eq" -> l = r
      [] cmp = "Neq" -> l # r
      [] cmp = "Le" -> l <= r
      [] cmp = "Lt" -> l < r
      [] cmp = "Ge" -> l >= r
      [] cmp = "Gt" -> l > r

(***************************************************************************)
(* The State: HashMap<&str, i64>.                                          *)
(***************************************************************************)
\* Mutant: the State is kept in main across turns.
HashMap_kept == IF out[1] = "Ok" THEN out[2] ELSE [v \in {} |-> 0]

HashMap_new == [v \in {} |-> 0]

\* Mutant: an existing binding is added to, not replaced.
insert_accumulate(st, var, val) ==
    [k \in DOMAIN st \cup {var} |->
        IF k = var THEN (IF var \in DOMAIN st THEN Wrap(st[var] + val) ELSE val)
        ELSE st[k]]

insert(st, var, val) ==
    [k \in DOMAIN st \cup {var} |-> IF k = var THEN val ELSE st[k]]

(***************************************************************************)
(* main.rs: eval_aexpr.  A `?` returns the operand's error at once.        *)
(***************************************************************************)
RECURSIVE eval_aexpr(_, _)
eval_aexpr(aexpr, st) ==
    CASE aexpr[1] = "Val" -> Ok(aexpr[2])
      [] aexpr[1] = "Var" ->
            IF aexpr[2] \in DOMAIN st THEN Ok(st[aexpr[2]]) ELSE Err("UninitVar")
      [] aexpr[1] = "BinOp" ->
            LET lhs == eval_aexpr(aexpr[3], st) IN
            IF ~IsOk(lhs) THEN lhs
            ELSE LET rhs == eval_aexpr(aexpr[4], st) IN
                 IF ~IsOk(rhs) THEN rhs
                 ELSE into_fn(aexpr[2], lhs[2], rhs[2])
      [] aexpr[1] = "Neg" ->
            LET res == eval_aexpr(aexpr[2], st) IN
            IF ~IsOk(res) THEN res ELSE neg(res[2])

(***************************************************************************)
(* main.rs: eval_bexpr.                                                    *)
(***************************************************************************)
RECURSIVE eval_bexpr(_, _)

\* Mutant: && and || skip the right operand when the left one decides.
eval_bexpr_short_circuit(bexpr, st) ==
    CASE bexpr[1] = "Bool" -> Ok(bexpr[2])
      [] bexpr[1] \in {"And", "Or"} ->
            LET lhs == eval_bexpr(bexpr[2], st) IN
            IF ~IsOk(lhs) THEN lhs
            ELSE IF lhs[2] = (bexpr[1] = "Or") THEN lhs
            ELSE eval_bexpr(bexpr[3], st)
      [] bexpr[1] = "Not" ->
            LET val == eval_bexpr(bexpr[2], st) IN
            IF ~IsOk(val) THEN val ELSE Ok(~val[2])
      [] bexpr[1] = "Cmp" ->
            LET lhs == eval_aexpr(bexpr[3], st) IN
            IF ~IsOk(lhs) THEN lhs
            ELSE LET rhs == eval_aexpr(bexpr[4], st) IN
                 IF ~IsOk(rhs) THEN rhs
                 ELSE Ok(compare(bexpr[2], lhs[2], rhs[2]))

eval_bexpr(bexpr, st) ==
    CASE bexpr[1] = "Bool" -> Ok(bexpr[2])
      [] bexpr[1] = "And" ->
            LET lhs == eval_bexpr(bexpr[2], st) IN
            IF ~IsOk(lhs) THEN lhs
            ELSE LET rhs == eval_bexpr(bexpr[3], st) IN
                 IF ~IsOk(rhs) THEN rhs ELSE Ok(lhs[2] /\ rhs[2])
      [] bexpr[1] = "Or" ->
            LET lhs == eval_bexpr(bexpr[2], st) IN
            IF ~IsOk(lhs) THEN lhs
            ELSE LET rhs == eval_bexpr(bexpr[3], st) IN
                 IF ~IsOk(rhs) THEN rhs ELSE Ok(lhs[2] \/ rhs[2])
      [] bexpr[1] = "Not" ->
            LET val == eval_bexpr(bexpr[2], st) IN
            IF ~IsOk(val) THEN val ELSE Ok(~val[2])
      [] bexpr[1] = "Cmp" ->
            LET lhs == eval_aexpr(bexpr[3], st) IN
            IF ~IsOk(lhs) THEN lhs
            ELSE LET rhs == eval_aexpr(bexpr[4], st) IN
                 IF ~IsOk(rhs) THEN rhs
                 ELSE Ok(compare(bexpr[2], lhs[2], rhs[2]))


(***************************************************************************)
(* ast.rs: StmtIter.  new() collects a Seq's members, or the statement     *)
(* itself, into a deque; next() pops its front.                            *)
(***************************************************************************)
\* Mutant: the members are collected back to front.
StmtIter_new_reversed(stmts) ==
    IF stmts[1] = "Seq"
    THEN [i \in 1..Len(stmts[2]) |-> stmts[2][Len(stmts[2]) + 1 - i]]
    ELSE <<stmts>>

StmtIter_new(stmts) ==
    IF stmts[1] = "Seq" THEN stmts[2] ELSE <<stmts>>

(***************************************************************************)
(* The lines a user may type.  The concrete-syntax parser is not part of   *)
(* the sources; a line is identified with the tree the parser returns for  *)
(* it, and one more line stands for any text the parser rejects.           *)
(***************************************************************************)
Countdown(n) ==
    Seq_from(<<Asgn("x", Val(n)),
               While(BExpr_cmp("Gt", Var("x"), Val(0)),
                     Asgn("x", AExpr_sub(Var("x"), Val(1))))>>)

DivBy0(l) == Asgn("x", AExpr_div(Val(l), Val(0)))

AsgnTwice(v0, v) ==
    Seq_from(<<Asgn("x", Val(v0)), Asgn("y", Val(2)),
               Asgn("x", Val(v)), Asgn("x", Val(v))>>)

UnboundZ == BExpr_cmp("Eq", Var("z"), Val(0))
OneOverZero == BExpr_cmp("Eq", AExpr_div(Val(1), Val(0)), Val(0))
X1 == Asgn("x", Val(1))
X2 == Asgn("x", Val(2))

FixedPrograms ==
    << Seq_from(<<Asgn("x", Val(3)), Asgn("y", AExpr_add(Var("x"), Val(4)))>>),
       Asgn("y", AExpr_add(Var("x"), Val(1))),
       ite(BExpr_cmp("Eq", Val(1), Val(1)), X1, X2),
       Asgn("x", Val(5)),
       \* sequences
       Seq_from(<<X1, Asgn("y", Var("z")), X2>>),
       Seq_from(<<X1,
                  Seq_from(<<Asgn("y", Val(2)),
                             Asgn("y", AExpr_add(Var("z"), Val(1))),
                             Asgn("y", Val(3))>>),
                  X2>>),
       Seq_from(<<Seq_from(<<X1, Asgn("y", Val(2))>>), Asgn("x", Val(3))>>),
       Seq_from(<<>>),
       Skip,
       \* conjunction and disjunction
       ite(BExpr_and(Bool(FALSE), UnboundZ), X1, X2),
       ite(BExpr_or(Bool(TRUE), UnboundZ), X1, X2),
       ite(BExpr_and(UnboundZ, OneOverZero), X1, X2),
       ite(BExpr_or(UnboundZ, OneOverZero), X1, X2),
       ite(BExpr_and(Bool(FALSE), OneOverZero), X1, X2),
       ite(BExpr_and(BExpr_cmp("Le", Val(1), Val(2)),
                     BExpr_not(BExpr_cmp("Lt", Val(2), Val(1)))), X1, X2),
       ite(BExpr_or(Bool(FALSE), BExpr_cmp("Ge", Val(1), Val(2))), X1, X2),
       \* conditionals and loops
       Seq_from(<<X1, ite(BExpr_cmp("Gt", Var("z"), Val(0)), X2, Asgn("x", Val(3)))>>),
       Seq_from(<<X1, ite(BExpr_cmp("Neq", Var("x"), Val(1)), X2, Asgn("y", Val(3)))>>),
       Seq_from(<<X1, While(BExpr_cmp("Neq", Var("z"), Val(0)), X2)>>),
       Seq_from(<<X1, While(BExpr_cmp("Eq", Var("x"), Val(1)), Asgn("y", Var("z")))>>),
       Seq_from(<<X1, While(BExpr_cmp("Gt", Var("x"), Val(0)),
                            Asgn("x", AExpr_mult(Var("x"), Val(2))))>>),
       While(Bool(TRUE), Skip),
       While(Bool(FALSE), X1),
       \* assignment
       AsgnTwice(1, 5),
       AsgnTwice(5, 5),
       AsgnTwice(MaxInt, MinInt),
       Seq_from(<<Asgn("x", Val(5)), Asgn("x", Val(5))>>),
       \* arithmetic at the ends of the range
       Asgn("x", AExpr_add(Val(MaxInt), Val(1))),
       Asgn("x", AExpr_sub(Val(MinInt), Val(1))),
       Asgn("x", AExpr_mult(Val(MaxInt), Val(2))),
       Asgn("x", AExpr_neg(Val(MinInt))),
       Asgn("x", AExpr_div(Val(MinInt), Val(-1))),
       Asgn("x", AExpr_div(AExpr_neg(Val(7)), Val(2))),
       Seq_from(<<Asgn("y", Val(0)), Asgn("x", AExpr_div(Val(MinInt), Var("y")))>>),
       DivBy0(1), DivBy0(0), DivBy0(-1), DivBy0(MaxInt) >>

Programs == FixedPrograms \o [n \in 1..(MaxN + 1) |-> Countdown(n - 1)]

NumPrograms == Len(Programs)
SyntaxErrorLine == NumPrograms + 1
Lines == 1..SyntaxErrorLine

parse(l) ==
    IF l \in 1..NumPrograms THEN Ok(Programs[l]) ELSE Err("syntax error")

(***************************************************************************)
(* The machine.  Frames:                                                   *)
(*   <<"run_prog", iter>>  run_prog's for loop, iter the StmtIter's deque  *)
(*   <<"eval", stmt>>      eval_stmt(stmt, state), about to match; for a   *)
(*                         While, the head of its loop                     *)
(*   <<"seq", rest>>       the for loop of the Seq arm, rest still to run  *)
(***************************************************************************)
Top == stack[1]
Rest == Tail(stack)
Running(tag) == pc = "eval" /\ stack # <<>> /\ Top[1] = "eval" /\ Top[2][1] = tag

\* A callee did not return a value: a panic aborts the process, an Err is
\* returned to the caller, which hands it on (pc = "unwind").
Fail(r) ==
    /\ result' = r
    /\ pc' = IF r[1] = "Panic" THEN "panicked" ELSE "unwind"
    /\ stack' = IF r[1] = "Panic" THEN <<>> ELSE Rest
    /\ UNCHANGED <<state, assigned>>

Frame == <<overflow_checks, readline, line, out, mode, last>>

\* run_prog: for stmt in prog { eval_stmt(stmt, &mut state)?; } Ok(state)
RunProgNext ==
    /\ pc = "eval" /\ stack # <<>> /\ Top[1] = "run_prog"
    /\ IF Top[2] = <<>>
       THEN /\ result' = Ok(state)
            /\ pc' = "report"
            /\ stack' = <<>>
            /\ UNCHANGED yielded
       ELSE /\ stack' = <<<<"eval", Head(Top[2])>>, <<"run_prog", Tail(Top[2])>>>> \o Rest
            /\ yielded' = Append(yielded, Head(Top[2]))
            /\ UNCHANGED <<pc, result>>
    /\ UNCHANGED <<state, assigned>>
    /\ UNCHANGED Frame

RunProgPropagate ==
    /\ pc = "unwind" /\ stack # <<>> /\ Top[1] = "run_prog"
    /\ pc' = "report"
    /\ stack' = <<>>
    /\ UNCHANGED <<state, result, assigned, yielded>>
    /\ UNCHANGED Frame

EvalSkip ==
    /\ Running("Skip")
    /\ stack' = Rest
    /\ UNCHANGED <<pc, state, result, assigned, yielded>>
    /\ UNCHANGED Frame

EvalAsgn ==
    /\ Running("Asgn")
    /\ LET var == Top[2][2]
           val == eval_aexpr(Top[2][3], state)
       IN IF IsOk(val)
          THEN /\ state' = insert(state, var, val[2])
               /\ assigned' = assigned \cup {var}
               /\ stack' = Rest
               /\ UNCHANGED <<pc, result>>
          ELSE Fail(val)
    /\ UNCHANGED yielded
    /\ UNCHANGED Frame

EvalSeq ==
    /\ Running("Seq")
    /\ stack' = <<<<"seq", Top[2][2]>>>> \o Rest
    /\ UNCHANGED <<pc, state, result, assigned, yielded>>
    /\ UNCHANGED Frame

SeqNext ==
    /\ pc = "eval" /\ stack # <<>> /\ Top[1] = "seq"
    /\ stack' = IF Top[2] = <<>> THEN Rest
                ELSE <<<<"eval", Head(Top[2])>>, <<"seq", Tail(Top[2])>>>> \o Rest
    /\ UNCHANGED <<pc, state, result, assigned, yielded>>
    /\ UNCHANGED Frame

\* Mutant: the Seq arm drops a member's error and goes on.
SeqPropagate_swallow ==
    /\ pc = "unwind" /\ stack # <<>> /\ Top[1] = "seq"
    /\ pc' = "eval"
    /\ UNCHANGED <<stack, state, result, assigned, yielded>>
    /\ UNCHANGED Frame

SeqPropagate ==
    /\ pc = "unwind" /\ stack # <<>> /\ Top[1] = "seq"
    /\ stack' = Rest
    /\ UNCHANGED <<pc, state, result, assigned, yielded>>
    /\ UNCHANGED Frame

\* Mutant: the branches are taken the wrong way round.
EvalIf_swapped ==
    /\ Running("If")
    /\ LET test == eval_bexpr(Top[2][2], state)
       IN IF IsOk(test)
          THEN /\ stack' = <<<<"eval", IF test[2] THEN Top[2][4] ELSE Top[2][3]>>>> \o Rest
               /\ UNCHANGED <<pc, state, result, assigned>>
          ELSE Fail(test)
    /\ UNCHANGED yielded
    /\ UNCHANGED Frame

EvalIf ==
    /\ Running("If")
    /\ LET test == eval_bexpr(Top[2][2], state)
       IN IF IsOk(test)
          THEN /\ stack' = <<<<"eval", IF test[2] THEN Top[2][3] ELSE Top[2][4]>>>> \o Rest
               /\ UNCHANGED <<pc, state, result, assigned>>
          ELSE Fail(test)
    /\ UNCHANGED yielded
    /\ UNCHANGED Frame

\* Mutant: the guard is tested once, the body run at most once.
EvalWhile_once ==
    /\ Running("While")
    /\ LET test == eval_bexpr(Top[2][2], state)
       IN IF IsOk(test)
          THEN /\ stack' = IF test[2] THEN <<<<"eval", Top[2][3]>>>> \o Rest ELSE Rest
               /\ UNCHANGED <<pc, state, result, assigned>>
          ELSE Fail(test)
    /\ UNCHANGED yielded
    /\ UNCHANGED Frame

EvalWhile ==
    /\ Running("While")
    /\ LET test == eval_bexpr(Top[2][2], state)
       IN IF IsOk(test)
          THEN /\ stack' = IF test[2] THEN <<<<"eval", Top[2][3]>>>> \o stack ELSE Rest
               /\ UNCHANGED <<pc, state, result, assigned>>
          ELSE Fail(test)
    /\ UNCHANGED yielded
    /\ UNCHANGED Frame

\* The only activation of eval_stmt that waits for a callee it does not
\* simply return is the While arm's.
WhilePropagate ==
    /\ pc = "unwind" /\ stack # <<>> /\ Top[1] = "eval" /\ Top[2][1] = "While"
    /\ stack' = Rest
    /\ UNCHANGED <<pc, state, result, assigned, yielded>>
    /\ UNCHANGED Frame

EvalStep ==
    \/ RunProgNext
    \/ RunProgPropagate
    \/ EvalSkip
    \/ EvalAsgn
    \/ EvalSeq
    \/ SeqNext
    \/ SeqPropagate
    \/ EvalIf
    \/ EvalWhile
    \/ WhilePropagate

(***************************************************************************)
(* main.rs: main.                                                          *)
(***************************************************************************)
Fresh ==
    /\ state' = HashMap_new
    /\ assigned' = {}
    /\ yielded' = <<>>

\* Ok(line), and the parser accepts it: run_prog(&parse) starts.
ReadLineParsed ==
    /\ pc = "readline"
    /\ \E l \in Lines :
          /\ IsOk(parse(l))
          /\ line' = l
          /\ stack' = <<<<"run_prog", StmtIter_new(parse(l)[2])>>>>
    /\ readline' = "Line"
    /\ pc' = "eval"
    /\ Fresh
    /\ UNCHANGED <<overflow_checks, result, out, mode, last>>

\* Ok(line), and the parser rejects it.
ReadLineSyntaxError ==
    /\ pc = "readline"
    /\ \E l \in Lines :
          /\ ~IsOk(parse(l))
          /\ line' = l
          /\ out' = <<"error", parse(l)[2]>>
    /\ readline' = "Line"
    /\ UNCHANGED <<overflow_checks, pc, stack, state, result, assigned, yielded, mode, last>>

ReadInterrupted ==
    /\ pc = "readline"
    /\ readline' = "Interrupted"
    /\ out' = <<"CTRL-C">>
    /\ pc' = "exited"
    /\ UNCHANGED <<overflow_checks, line, stack, state, result, assigned, yielded, mode, last>>

ReadEof ==
    /\ pc = "readline"
    /\ readline' = "Eof"
    /\ out' = <<"CTRL-D">>
    /\ pc' = "exited"
    /\ UNCHANGED <<overflow_checks, line, stack, state, result, assigned, yielded, mode, last>>

ReadOtherErr ==
    /\ pc = "readline"
    /\ readline' = "Err"
    /\ out' = <<"Error", "other">>
    /\ pc' = "exited"
    /\ UNCHANGED <<overflow_checks, line, stack, state, result, assigned, yielded, mode, last>>

\* println!("{:?}", final_state)
Println ==
    /\ pc = "report" /\ mode = "main"
    /\ out' = result
    /\ pc' = "readline"
    /\ result' = <<"none">>
    /\ UNCHANGED <<overflow_checks, readline, line, stack, state, assigned, yielded, mode, last>>

NoOutcome == [run_prog |-> <<"none">>, eval_stmt |-> <<"none">>]

Idle ==
    /\ overflow_checks \in BOOLEAN
    /\ readline = "none"
    /\ line = 0
    /\ stack = <<>>
    /\ result = <<"none">>
    /\ out = <<"none">>
    /\ state = HashMap_new
    /\ assigned = {}
    /\ yielded = <<>>
    /\ last = NoOutcome

Init ==
    /\ Idle
    /\ pc = "readline"
    /\ mode = "main"

Next ==
    \/ ReadLineParsed
    \/ ReadLineSyntaxError
    \/ ReadInterrupted
    \/ ReadEof
    \/ ReadOtherErr
    \/ EvalStep
    \/ Println

Spec == Init /\ [][Next]_vars

\* The process runs one thread, which is never descheduled for good.
FairSpec == Spec /\ WF_vars(EvalStep) /\ WF_vars(Println)


(***************************************************************************)
(* A caller that runs a program through run_prog and then hands the same   *)
(* root to eval_stmt with an empty State, keeping both outcomes.  A panic  *)
(* is caught at the call, so that the two outcomes can be compared.        *)
(***************************************************************************)
CallRunProg ==
    /\ pc = "harness"
    /\ \E l \in 1..NumPrograms :
          /\ line' = l
          /\ stack' = <<<<"run_prog", StmtIter_new(Programs[l])>>>>
    /\ mode' = "run_prog"
    /\ pc' = "eval"
    /\ last' = NoOutcome
    /\ Fresh
    /\ UNCHANGED <<overflow_checks, readline, result, out>>

\* run_prog has returned (or panicked): keep its outcome, call eval_stmt(root, {}).
CallEvalStmt ==
    /\ pc \in {"report", "panicked"} /\ mode = "run_prog"
    /\ last' = [last EXCEPT !.run_prog = result]
    /\ stack' = <<<<"eval", Programs[line]>>>>
    /\ mode' = "eval_stmt"
    /\ pc' = "eval"
    /\ result' = <<"none">>
    /\ Fresh
    /\ UNCHANGED <<overflow_checks, readline, line, out>>

\* The outermost eval_stmt returns: Ok(()) with the State as it left it, or the Err.
EvalStmtReturn ==
    /\ mode = "eval_stmt" /\ stack = <<>> /\ pc \in {"eval", "unwind"}
    /\ result' = IF pc = "eval" THEN Ok(state) ELSE result
    /\ pc' = "report"
    /\ UNCHANGED <<overflow_checks, readline, line, stack, state, out, assigned, yielded, mode, last>>

Compare ==
    /\ pc \in {"report", "panicked"} /\ mode = "eval_stmt"
    /\ last' = [last EXCEPT !.eval_stmt = result]
    /\ pc' = "harness"
    /\ mode' = "harness"
    /\ result' = <<"none">>
    /\ UNCHANGED <<overflow_checks, readline, line, stack, state, out, assigned, yielded>>

InitDirect ==
    /\ Idle
    /\ pc = "harness"
    /\ mode = "harness"

NextDirect ==
    \/ CallRunProg
    \/ CallEvalStmt
    \/ EvalStep
    \/ EvalStmtReturn
    \/ Compare

SpecDirect == InitDirect /\ [][NextDirect]_vars


(***************************************************************************)
(*                              The claims                                 *)
(***************************************************************************)
VarNames == {"x", "y", "z"}
Program == Programs[line]
Evaluating == pc = "eval" /\ stack # <<>> /\ Top[1] = "eval"
Binding(v, n) == [k \in {v} |-> n]
IsCountdown(n) == line \in 1..NumPrograms /\ Program = Countdown(n)
\* What iterating a root is to yield.
Members(root) == IF root[1] = "Seq" THEN root[2] ELSE <<root>>
\* The exact, unbounded result of an operator.
Exact(bin_op, l, r) ==
    CASE bin_op = "Add" -> l + r
      [] bin_op = "Sub" -> l - r
      [] bin_op = "Mult" -> l * r
      [] bin_op = "Div" -> TruncDiv(l, r)

\* C1: a Div whose right operand evaluates to 0 returns the error value
\* DivisionByZero, whatever the left operand, and does not abort the evaluator.
C1_DivisionByZeroIsAnError ==
    (/\ Running("Asgn")
     /\ Top[2][3][1] = "BinOp"
     /\ Top[2][3][2] = "Div"
     /\ IsOk(eval_aexpr(Top[2][3][3], state))
     /\ eval_aexpr(Top[2][3][4], state) = Ok(0))
    => eval_aexpr(Top[2][3], state) = Err("DivisionByZero")

\* C2: Add, Sub, Mult, negation and MIN / -1 return the two's-complement
\* wrapped result as a successful value, in every build, and never trap.
C2_ArithmeticWraps ==
    Running("Asgn") =>
        LET e == Top[2][3] IN
        /\ (e[1] = "BinOp" /\ IsOk(eval_aexpr(e[3], state)) /\ IsOk(eval_aexpr(e[4], state))) =>
              LET l == eval_aexpr(e[3], state)[2]
                  r == eval_aexpr(e[4], state)[2]
              IN (e[2] # "Div" \/ (l = MinInt /\ r = -1)) =>
                    eval_aexpr(e, state) = Ok(Wrap(Exact(e[2], l, r)))
        /\ (e[1] = "Neg" /\ IsOk(eval_aexpr(e[2], state))) =>
              eval_aexpr(e, state) = Ok(Wrap(-(eval_aexpr(e[2], state)[2])))

\* C3: in every turn, whatever earlier turns bound, reading a variable that
\* has not been assigned in the current execution yields the unbound-variable
\* error.
C3_UnassignedIsUnbound ==
    pc \in {"eval", "unwind", "report"} =>
        \A v \in VarNames \ assigned : eval_aexpr(Var(v), state) = Err("UninitVar")

\* The turn `y := x + 1` is running right after a turn that printed x bound.
C3_Witness ==
    /\ Running("Asgn")
    /\ Top[2] = Asgn("y", AExpr_add(Var("x"), Val(1)))
    /\ out[1] = "Ok"
    /\ "x" \in DOMAIN out[2]
    /\ "x" \notin assigned

\* C4: a Seq runs its members left to right; the member that fails mutates
\* nothing as it fails, its error is what the execution returns, and from
\* then on nothing is evaluated and the State keeps the earlier mutations.
C4_SeqFailFast ==
    [][/\ (pc = "eval" /\ stack # <<>> /\ Top[1] = "seq" /\ Top[2] # <<>>) =>
              stack' = <<<<"eval", Head(Top[2])>>, <<"seq", Tail(Top[2])>>>> \o Rest
       /\ (pc = "eval" /\ pc' = "unwind") =>
              (result'[1] = "Err" /\ state' = state)
       /\ pc = "unwind" =>
              /\ pc' \in {"unwind", "report"}
              /\ state' = state
              /\ result' = result
              /\ Len(stack') < Len(stack)
       /\ (pc = "report" /\ pc' = "readline") => out' = result
       /\ (pc' = "report" /\ Program = Seq_from(<<X1, Asgn("y", Var("z")), X2>>)) =>
              (result' = Err("UninitVar") /\ state' = Binding("x", 1))
      ]_vars

\* An error is on its way out of a Seq that has members left, after an
\* earlier member has mutated the State.
C4_Witness ==
    /\ pc = "unwind"
    /\ stack # <<>>
    /\ Top[1] = "seq"
    /\ Top[2] # <<>>
    /\ state # HashMap_new

\* C5: And and Or evaluate the right operand whenever the left one succeeds,
\* whatever its value, and fail when the right one fails; a failing left
\* operand's error is returned and the right operand is not evaluated.
C5_NonShortCircuit ==
    (Evaluating /\ Top[2][1] \in {"If", "While"} /\ Top[2][2][1] \in {"And", "Or"}) =>
        LET g == Top[2][2]
            l == eval_bexpr(g[2], state)
            r == eval_bexpr(g[3], state)
            res == eval_bexpr(g, state)
        IN /\ ~IsOk(l) => res = l
           /\ (IsOk(l) /\ ~IsOk(r)) => res = r
           /\ (IsOk(l) /\ IsOk(r)) =>
                 res = Ok(IF g[1] = "And" THEN l[2] /\ r[2] ELSE l[2] \/ r[2])

\* A guard whose left operand alone decides it, and whose right operand fails.
C5_Witness ==
    /\ Evaluating
    /\ Top[2][1] = "If"
    /\ Top[2][2][1] \in {"And", "Or"}
    /\ eval_bexpr(Top[2][2][2], state) = Ok(Top[2][2][1] = "Or")
    /\ eval_bexpr(Top[2][2][3], state)[1] = "Err"

\* C6: a while loop tests its guard against the current State before every
\* iteration, runs the body only on true, returns success exactly on false
\* (leaving the State as the guard saw it), and is aborted by a failing guard
\* or body; `x := n; while x > 0 do x := x - 1` ends with bindings {x: 0}.
C6_WhileLoop ==
    /\ [][/\ Running("While") =>
                LET test == eval_bexpr(Top[2][2], state) IN
                /\ state' = state
                /\ test = Ok(TRUE) =>
                      (pc' = "eval" /\ stack' = <<<<"eval", Top[2][3]>>>> \o stack)
                /\ test = Ok(FALSE) => (pc' = "eval" /\ stack' = Rest)
                /\ test[1] = "Err" => (pc' = "unwind" /\ result' = test /\ stack' = Rest)
          /\ (pc = "unwind" /\ stack # <<>> /\ Top[1] = "eval") =>
                (pc' = "unwind" /\ stack' = Rest /\ result' = result /\ state' = state)
          /\ (pc' = "report" /\ \E n \in 0..MaxN : IsCountdown(n)) =>
                result' = Ok(Binding("x", 0))
         ]_vars
    /\ \A n \in 0..MaxN :
          (pc = "eval" /\ IsCountdown(n))
             ~> (pc = "report" /\ IsCountdown(n) /\ result = Ok(Binding("x", 0)))

\* The countdown from MaxN has returned.
C6_Witness ==
    /\ pc = "report"
    /\ IsCountdown(MaxN)
    /\ result = Ok(Binding("x", 0))

\* C7: a conditional evaluates its guard first; on success exactly the
\* branch the guard selects is evaluated next and the other never is; on a
\* failing guard neither branch runs, the guard's error is returned and the
\* State is unchanged.  `if 1 = 1 then x := 1 else x := 2` gives {x: 1}.
C7_Conditional ==
    [][/\ Running("If") =>
             LET test == eval_bexpr(Top[2][2], state) IN
             /\ state' = state
             /\ test = Ok(TRUE) => (pc' = "eval" /\ stack' = <<<<"eval", Top[2][3]>>>> \o Rest)
             /\ test = Ok(FALSE) => (pc' = "eval" /\ stack' = <<<<"eval", Top[2][4]>>>> \o Rest)
             /\ test[1] = "Err" => (pc' = "unwind" /\ result' = test /\ stack' = Rest)
       /\ (pc' = "report" /\ Program = ite(BExpr_cmp("Eq", Val(1), Val(1)), X1, X2)) =>
             result' = Ok(Binding("x", 1))
      ]_vars

\* A conditional whose guard was false has run its else branch, after an
\* earlier statement bound x.
C7_Witness ==
    /\ pc = "report"
    /\ Program = Seq_from(<<X1, ite(BExpr_cmp("Neq", Var("x"), Val(1)), X2, Asgn("y", Val(3)))>>)
    /\ result = Ok([k \in {"x", "y"} |-> IF k = "x" THEN 1 ELSE 3])

\* C8: the driver loop ends if and only if the line reader returns
\* Interrupted, EndOfInput or another failure; a line that fails to parse or
\* to evaluate is reported and the next line is read.
C8_LoopEndsOnlyOnReader ==
    pc \in {"exited", "panicked"} <=> readline \in {"Interrupted", "Eof", "Err"}

\* C9: Asgn(x, Val(v)) binds x to v, replacing any earlier value, and leaves
\* every other binding alone; evaluated again it changes nothing.
C9_AssignOverwrites ==
    [][(Running("Asgn") /\ Top[2][3][1] = "Val") =>
          LET x == Top[2][2]
              v == Top[2][3][2]
          IN /\ pc' = "eval"
             /\ state' = [k \in DOMAIN state \cup {x} |-> IF k = x THEN v ELSE state[k]]
             /\ (x \in DOMAIN state /\ state[x] = v) => state' = state
      ]_vars

\* The same literal assignment has been evaluated twice in a row, over a
\* State that held another value for x and a binding for y.
C9_Witness ==
    /\ pc = "eval"
    /\ Len(yielded) = 4
    /\ yielded[3] = yielded[4]
    /\ yielded[2] = Asgn("y", Val(2))
    /\ yielded[1] # yielded[3]
    /\ yielded[4][1] = "Asgn"
    /\ stack = <<<<"run_prog", <<>>>>>>
    /\ state = [k \in {"x", "y"} |-> IF k = "x" THEN yielded[4][3][2] ELSE 2]

\* C10: iterating a statement yields a Seq's members once each in source
\* order, and any other statement itself, alone; and run_prog on a root
\* gives the bindings or the error that eval_stmt gives on it in an empty
\* State.
C10_IterationAndEquivalence ==
    /\ (mode = "run_prog" /\ pc \in {"eval", "unwind"}) =>
          /\ stack[Len(stack)][1] = "run_prog"
          /\ yielded \o stack[Len(stack)][2] = Members(Program)
    /\ (mode = "run_prog" /\ pc = "report" /\ IsOk(result)) => yielded = Members(Program)
    /\ pc = "harness" => last.run_prog = last.eval_stmt

\* Both calls have returned for a root that is a Seq holding a Seq.
C10_Witness ==
    /\ pc = "harness"
    /\ line \in 1..NumPrograms
    /\ Program[1] = "Seq"
    /\ Len(Program[2]) = 2
    /\ Program[2][1][1] = "Seq"
    /\ last.run_prog = Ok([k \in {"x", "y"} |-> IF k = "x" THEN 3 ELSE 2])
    /\ last.eval_stmt = last.run_prog

=============================================================================
